---- MODULE Spec2Model ----
(***************************************************************************)
(* Pandos phase 1: the process control block pool, the process queues and  *)
(* the active semaphore list, modelled from src/pandos/phase1/pcb.c (the   *)
(* documented revision, lines 130-566) and src/pandos/phase1/asl.c.        *)
(*                                                                         *)
(* Pointers are small integers: PCB i of pcbPool is i, semaphore           *)
(* descriptor semdTable[i] is i + 1, and NULL is 0.  A semaphore address   *)
(* is an integer key; the null address 0 is also the key of the head     *)
(* sentinel.  Each C function is an operator from the heap before the call *)
(* to the heap after it, written assignment by assignment, and each action *)
(* is one call made by the layer above.                                    *)
(***************************************************************************)
EXTENDS Integers, Sequences, FiniteSets, TLC

\* Size of the PCB pool and of the descriptor table (const.h; the test
\* program sets it to 20, src/unnamed/part_002:23).
MAXPROC == 4

\* Semaphore addresses used by the caller are 1..MaxKey.
MaxKey == 5

\* The semaphore runs make at most MaxCalls successful ASL calls.
MaxCalls == 5

\* const.h is not part of the sources; the key of the tail sentinel is the
\* largest int, above every real semaphore address.
MAX_INT == 2147483647

NULL == 0

TRUE_ == 1

FALSE_ == 0

Pcbs == 1..MAXPROC

Keys == 1..MaxKey

\* semdTable[0 .. MAXPROC-1] are the real descriptors, semdTable[MAXPROC]
\* and semdTable[MAXPROC+1] the two dummy nodes.
Semds == 1..(MAXPROC + 2)

HeadDummy == MAXPROC + 1

TailDummy == MAXPROC + 2

VARIABLES
  pcb,         \* pcbPool: [Pcbs -> pcb_t]
  pcbFree_h,   \* head of the free PCB list
  semd,        \* semdTable: [Semds -> semd_t]
  semd_h,      \* head of the ASL
  semdFree_h,  \* head of the free descriptor list
  rq,          \* the caller's process queue (its tail pointer)
  held,        \* history: PCBs returned by allocPcb and not yet freed
  qseq,        \* history: PCBs inserted into rq and not yet returned, oldest first
  blk,         \* history: per key, PCBs blocked and not yet returned, oldest first
  call,        \* history: the last pool, queue or tree call, its argument and its return value
  ncalls,      \* history: the number of successful ASL calls so far
  kids,        \* history: per parent, the children inserted and not yet removed, newest first
  fault        \* history: a call has read through a null pointer

vars == <<pcb, pcbFree_h, semd, semd_h, semdFree_h, rq, held, qseq, blk, call, ncalls, kids, fault>>

aslVars == <<semd, semd_h, semdFree_h, blk, ncalls>>

treeVars == <<kids, fault>>

----------------------------------------------------------------------------
(* pcb.c: the free list *)

\* p_s is the saved processor state (pcb_t, src/unnamed/part_004:27): 0 is
\* the cleared snapshot, any other value a state some process has saved.
ZeroPcb ==
  [p_next |-> NULL, p_prev |-> NULL, p_parent |-> NULL, p_child |-> NULL,
   p_sib_next |-> NULL, p_sib_prev |-> NULL, p_s |-> 0, p_time |-> 0,
   p_semAdd |-> NULL]

\* The static pool is zero-filled; the loop pushes pcbPool[0], pcbPool[1], ...
\* so each PCB points to the one pushed before it.
RECURSIVE initPcbsLoop(_, _, _)
initPcbsLoop(h, free, i) ==
  IF i > MAXPROC THEN [pcb |-> h, free |-> free]
  ELSE initPcbsLoop([h EXCEPT ![i].p_next = free], i, i + 1)

initPcbs == initPcbsLoop([p \in Pcbs |-> ZeroPcb], NULL, 1)

\* freePcb that puts p at the far end of the free list
RECURSIVE lastFree(_, _)
lastFree(h, n) == IF h[n].p_next # NULL THEN lastFree(h, h[n].p_next) ELSE n

freePcbTail(h, free, p) ==
  IF p = NULL THEN [pcb |-> h, free |-> free]
  ELSE IF free = NULL THEN [pcb |-> [h EXCEPT ![p].p_next = NULL], free |-> p]
  ELSE [pcb |-> [h EXCEPT ![lastFree(h, free)].p_next = p, ![p].p_next = NULL],
        free |-> free]

\* freePcb that forgets to push p
freePcbLeak(h, free, p) == [pcb |-> h, free |-> free]

freePcb(h, free, p) ==
  IF p = NULL THEN [pcb |-> h, free |-> free]
  ELSE [pcb |-> [h EXCEPT ![p].p_next = free], free |-> p]

allocPcb(h, free) ==
  LET pcbRm == free IN
  IF pcbRm = NULL THEN [pcb |-> h, free |-> free, ret |-> NULL]
  ELSE [pcb  |-> [h EXCEPT ![pcbRm].p_next = NULL, ![pcbRm].p_prev = NULL,
                           ![pcbRm].p_parent = NULL, ![pcbRm].p_child = NULL,
                           ![pcbRm].p_sib_next = NULL, ![pcbRm].p_sib_prev = NULL,
                           ![pcbRm].p_time = 0, ![pcbRm].p_semAdd = NULL],
        free |-> h[pcbRm].p_next,
        ret  |-> pcbRm]

----------------------------------------------------------------------------
(* pcb.c: process queues *)

mkEmptyProcQ == NULL

emptyProcQ(tp) == tp = NULL

headProcQ(h, tp) == IF emptyProcQ(tp) THEN NULL ELSE h[tp].p_next

\* insertProcQ that links p in but leaves the tail pointer on the old tail
insertProcQFront(h, tp, p) ==
  IF p = NULL THEN [pcb |-> h, tp |-> tp]
  ELSE IF emptyProcQ(tp)
  THEN [pcb |-> [h EXCEPT ![p].p_prev = p, ![p].p_next = p], tp |-> p]
  ELSE LET h1 == [h EXCEPT ![p].p_next = h[tp].p_next]
           h2 == [h1 EXCEPT ![p].p_prev = tp]
           h3 == [h2 EXCEPT ![h2[tp].p_next].p_prev = p]
           h4 == [h3 EXCEPT ![tp].p_next = p]
       IN  [pcb |-> h4, tp |-> tp]

insertProcQ(h, tp, p) ==
  IF p = NULL THEN [pcb |-> h, tp |-> tp]
  ELSE IF emptyProcQ(tp)
  THEN [pcb |-> [h EXCEPT ![p].p_prev = p, ![p].p_next = p], tp |-> p]
  ELSE LET h1 == [h EXCEPT ![p].p_next = h[tp].p_next]
           h2 == [h1 EXCEPT ![p].p_prev = tp]
           h3 == [h2 EXCEPT ![h2[tp].p_next].p_prev = p]
           h4 == [h3 EXCEPT ![tp].p_next = p]
       IN  [pcb |-> h4, tp |-> p]

\* The scan of case 4: from the head, stop at the tail or at p.
RECURSIVE outProcQScan(_, _, _, _)
outProcQScan(h, tp, p, iter) ==
  IF iter # tp /\ iter # p THEN outProcQScan(h, tp, p, h[iter].p_next) ELSE iter

\* The scan of case 4 without the test for the tail: it looks for p alone
RECURSIVE outProcQScanStepsNoWrap(_, _, _, _, _)
outProcQScanStepsNoWrap(h, tp, p, iter, n) ==
  IF n > MAXPROC \/ iter = NULL THEN MAXPROC + 1
  ELSE IF iter # p THEN outProcQScanStepsNoWrap(h, tp, p, h[iter].p_next, n + 1)
  ELSE n

\* The number of times the scan of case 4 executes iter = iter->p_next, n of
\* them done. A scan that follows more than MAXPROC links is back at a PCB it
\* has left before and never ends, and one that reaches NULL faults: both
\* give MAXPROC + 1.
RECURSIVE outProcQScanSteps(_, _, _, _, _)
outProcQScanSteps(h, tp, p, iter, n) ==
  IF n > MAXPROC \/ iter = NULL THEN MAXPROC + 1
  ELSE IF iter # tp /\ iter # p THEN outProcQScanSteps(h, tp, p, h[iter].p_next, n + 1)
  ELSE n

\* The links outProcQ follows in its scan: none in cases 1 to 3
outProcQSteps(h, tp, p) ==
  IF p = NULL \/ emptyProcQ(tp) THEN 0
  ELSE IF tp = h[tp].p_next THEN 0
  ELSE IF p = tp THEN 0
  ELSE outProcQScanSteps(h, tp, p, h[tp].p_next, 0)

\* Case 3 of outProcQ: p is the tail of a queue of two or more
outProcQTail(h, tp, p) ==
  LET h1   == [h EXCEPT ![h[tp].p_prev].p_next = h[tp].p_next]
      h2   == [h1 EXCEPT ![h1[tp].p_next].p_prev = h1[tp].p_prev]
      iter == tp
      h3   == [h2 EXCEPT ![iter].p_next = NULL, ![iter].p_prev = NULL]
  IN  [pcb |-> h3, tp |-> h3[tp].p_prev, ret |-> p]

\* Case 4 as an earlier revision had it (src/unnamed/part_001:210): the tail
\* pointer steps back on every removal
outProcQInnerRetarget(h, tp, p) ==
  LET iter == outProcQScan(h, tp, p, h[tp].p_next) IN
  IF iter = p
  THEN LET h1 == [h EXCEPT ![h[iter].p_prev].p_next = h[iter].p_next]
           h2 == [h1 EXCEPT ![h1[iter].p_next].p_prev = h1[iter].p_prev]
           h3 == [h2 EXCEPT ![iter].p_next = NULL, ![iter].p_prev = NULL]
       IN  [pcb |-> h3, tp |-> h2[tp].p_prev, ret |-> p]
  ELSE [pcb |-> h, tp |-> tp, ret |-> NULL]

\* Cases 4 and 5 without the scan: p is unlinked through its own p_prev and
\* p_next, whether or not it is in this queue
outProcQInnerBlind(h, tp, p) ==
  IF h[p].p_prev # NULL /\ h[p].p_next # NULL
  THEN LET h1 == [h EXCEPT ![h[p].p_prev].p_next = h[p].p_next]
           h2 == [h1 EXCEPT ![h1[p].p_next].p_prev = h1[p].p_prev]
           h3 == [h2 EXCEPT ![p].p_next = NULL, ![p].p_prev = NULL]
       IN  [pcb |-> h3, tp |-> tp, ret |-> p]
  ELSE [pcb |-> h, tp |-> tp, ret |-> NULL]

\* Cases 4 and 5 of outProcQ: p is not the tail; scan for it from the head
outProcQInner(h, tp, p) ==
  LET iter == outProcQScan(h, tp, p, h[tp].p_next) IN
  IF iter = p
  THEN LET h1 == [h EXCEPT ![h[iter].p_prev].p_next = h[iter].p_next]
           h2 == [h1 EXCEPT ![h1[iter].p_next].p_prev = h1[iter].p_prev]
           h3 == [h2 EXCEPT ![iter].p_next = NULL, ![iter].p_prev = NULL]
       IN  [pcb |-> h3, tp |-> tp, ret |-> p]
  ELSE [pcb |-> h, tp |-> tp, ret |-> NULL]

outProcQ(h, tp, p) ==
  IF p = NULL \/ emptyProcQ(tp) THEN [pcb |-> h, tp |-> tp, ret |-> NULL]
  ELSE IF tp = h[tp].p_next
  THEN \* Case 2: a single element
       IF tp = p THEN [pcb |-> h, tp |-> NULL, ret |-> p]
       ELSE [pcb |-> h, tp |-> tp, ret |-> NULL]
  ELSE IF p = tp THEN outProcQTail(h, tp, p)
  ELSE outProcQInner(h, tp, p)

\* removeProcQ that hands outProcQ the tail instead of the head
removeProcQTail(h, tp) ==
  IF emptyProcQ(tp) THEN [pcb |-> h, tp |-> tp, ret |-> NULL]
  ELSE outProcQ(h, tp, tp)

removeProcQ(h, tp) ==
  IF emptyProcQ(tp) THEN [pcb |-> h, tp |-> tp, ret |-> NULL]
  ELSE outProcQ(h, tp, headProcQ(h, tp))

----------------------------------------------------------------------------
(* pcb.c: the process tree *)

emptyChild(h, p) == h[p].p_child = NULL

\* insertChild as an earlier revision had it (src/unnamed/part_000:165-176):
\* the new child goes to the end of the sibling list
RECURSIVE lastSib(_, _)
lastSib(h, iter) == IF h[iter].p_sib_next # NULL THEN lastSib(h, h[iter].p_sib_next) ELSE iter

insertChildLast(h, prnt, p) ==
  IF prnt = NULL \/ p = NULL THEN h
  ELSE LET h1 == [h EXCEPT ![p].p_parent = prnt] IN
       IF emptyChild(h1, prnt)
       THEN [h1 EXCEPT ![prnt].p_child = p, ![p].p_sib_next = NULL, ![p].p_sib_prev = NULL]
       ELSE LET iter == lastSib(h1, h1[prnt].p_child)
                h2   == [h1 EXCEPT ![iter].p_sib_next = p]
                h3   == [h2 EXCEPT ![p].p_sib_prev = iter]
            IN  [h3 EXCEPT ![p].p_sib_next = NULL]

\* insertChild that chains the siblings through the queue links p_next and
\* p_prev
insertChildQueueLinks(h, prnt, p) ==
  IF prnt = NULL \/ p = NULL THEN h
  ELSE LET h1 == [h EXCEPT ![p].p_parent = prnt] IN
       IF emptyChild(h1, prnt)
       THEN LET h2 == [h1 EXCEPT ![prnt].p_child = p] IN
            [h2 EXCEPT ![p].p_next = NULL, ![p].p_prev = NULL]
       ELSE LET h2 == [h1 EXCEPT ![p].p_next = h1[prnt].p_child]
                h3 == [h2 EXCEPT ![h2[p].p_next].p_prev = p]
                h4 == [h3 EXCEPT ![prnt].p_child = p]
            IN  [h4 EXCEPT ![p].p_prev = NULL]

insertChild(h, prnt, p) ==
  IF prnt = NULL \/ p = NULL THEN h
  ELSE LET h1 == [h EXCEPT ![p].p_parent = prnt] IN
       IF emptyChild(h1, prnt)
       THEN LET h2 == [h1 EXCEPT ![prnt].p_child = p] IN
            [h2 EXCEPT ![p].p_sib_next = NULL, ![p].p_sib_prev = NULL]
       ELSE LET h2 == [h1 EXCEPT ![p].p_sib_next = h1[prnt].p_child]
                h3 == [h2 EXCEPT ![h2[p].p_sib_next].p_sib_prev = p]
                h4 == [h3 EXCEPT ![prnt].p_child = p]
            IN  [h4 EXCEPT ![p].p_sib_prev = NULL]

\* outChild without the early return for a PCB that has no parent: the stores
\* are skipped for lack of a parent and of siblings, and p is returned
outChildNoReturn(h, p) ==
  IF p = NULL THEN [pcb |-> h, ret |-> NULL]
  ELSE LET h1 == IF h[p].p_parent # NULL /\ h[h[p].p_parent].p_child = p
                 THEN [h EXCEPT ![h[p].p_parent].p_child = h[p].p_sib_next]
                 ELSE h
           h2 == IF h1[p].p_sib_prev # NULL
                 THEN [h1 EXCEPT ![h1[p].p_sib_prev].p_sib_next = h1[p].p_sib_next]
                 ELSE h1
           h3 == IF h2[p].p_sib_next # NULL
                 THEN [h2 EXCEPT ![h2[p].p_sib_next].p_sib_prev = h2[p].p_sib_prev]
                 ELSE h2
           h4 == [h3 EXCEPT ![p].p_sib_next = NULL, ![p].p_sib_prev = NULL,
                            ![p].p_parent = NULL]
       IN  [pcb |-> h4, ret |-> p]

\* outChild that also cuts p off from its own children
outChildDropKids(h, p) ==
  IF p = NULL \/ h[p].p_parent = NULL THEN [pcb |-> h, ret |-> NULL]
  ELSE LET h1 == IF h[h[p].p_parent].p_child = p
                 THEN [h EXCEPT ![h[p].p_parent].p_child = h[p].p_sib_next]
                 ELSE h
           h2 == IF h1[p].p_sib_prev # NULL
                 THEN [h1 EXCEPT ![h1[p].p_sib_prev].p_sib_next = h1[p].p_sib_next]
                 ELSE h1
           h3 == IF h2[p].p_sib_next # NULL
                 THEN [h2 EXCEPT ![h2[p].p_sib_next].p_sib_prev = h2[p].p_sib_prev]
                 ELSE h2
           h4 == [h3 EXCEPT ![p].p_sib_next = NULL, ![p].p_sib_prev = NULL,
                            ![p].p_parent = NULL, ![p].p_child = NULL]
       IN  [pcb |-> h4, ret |-> p]

\* outChild that leaves the parent's p_child alone when p is the first child
outChildKeepFirst(h, p) ==
  IF p = NULL \/ h[p].p_parent = NULL THEN [pcb |-> h, ret |-> NULL]
  ELSE LET h2 == IF h[p].p_sib_prev # NULL
                 THEN [h EXCEPT ![h[p].p_sib_prev].p_sib_next = h[p].p_sib_next]
                 ELSE h
           h3 == IF h2[p].p_sib_next # NULL
                 THEN [h2 EXCEPT ![h2[p].p_sib_next].p_sib_prev = h2[p].p_sib_prev]
                 ELSE h2
           h4 == [h3 EXCEPT ![p].p_sib_next = NULL, ![p].p_sib_prev = NULL,
                            ![p].p_parent = NULL]
       IN  [pcb |-> h4, ret |-> p]

\* outChild that skips p in the forward links only
outChildForward(h, p) ==
  IF p = NULL \/ h[p].p_parent = NULL THEN [pcb |-> h, ret |-> NULL]
  ELSE LET h1 == IF h[h[p].p_parent].p_child = p
                 THEN [h EXCEPT ![h[p].p_parent].p_child = h[p].p_sib_next]
                 ELSE h
           h2 == IF h1[p].p_sib_prev # NULL
                 THEN [h1 EXCEPT ![h1[p].p_sib_prev].p_sib_next = h1[p].p_sib_next]
                 ELSE h1
           h4 == [h2 EXCEPT ![p].p_sib_next = NULL, ![p].p_sib_prev = NULL,
                            ![p].p_parent = NULL]
       IN  [pcb |-> h4, ret |-> p]

outChild(h, p) ==
  IF p = NULL \/ h[p].p_parent = NULL THEN [pcb |-> h, ret |-> NULL]
  ELSE LET h1 == IF h[h[p].p_parent].p_child = p
                 THEN [h EXCEPT ![h[p].p_parent].p_child = h[p].p_sib_next]
                 ELSE h
           h2 == IF h1[p].p_sib_prev # NULL
                 THEN [h1 EXCEPT ![h1[p].p_sib_prev].p_sib_next = h1[p].p_sib_next]
                 ELSE h1
           h3 == IF h2[p].p_sib_next # NULL
                 THEN [h2 EXCEPT ![h2[p].p_sib_next].p_sib_prev = h2[p].p_sib_prev]
                 ELSE h2
           h4 == [h3 EXCEPT ![p].p_sib_next = NULL, ![p].p_sib_prev = NULL,
                            ![p].p_parent = NULL]
       IN  [pcb |-> h4, ret |-> p]

removeChild(h, p) ==
  IF p = NULL \/ emptyChild(h, p) THEN [pcb |-> h, ret |-> NULL]
  ELSE outChild(h, h[p].p_child)

----------------------------------------------------------------------------
(* asl.c: the active semaphore list *)

\* semdTable after initASL: descriptors 1..MAXPROC chained on the free list,
\* then the head dummy (key 0) pointing to the tail dummy (key MAX_INT).
\* initASL without the store that ends the free list at semdTable[MAXPROC-1]
\* (asl.c:118): the free list runs on into the two dummy nodes
initASLUncut ==
  [semd |-> [d \in Semds |->
               IF d <= MAXPROC THEN [s_next |-> d + 1, s_semAdd |-> NULL, s_procQ |-> mkEmptyProcQ]
               ELSE IF d = HeadDummy THEN [s_next |-> TailDummy, s_semAdd |-> 0, s_procQ |-> mkEmptyProcQ]
               ELSE [s_next |-> NULL, s_semAdd |-> MAX_INT, s_procQ |-> mkEmptyProcQ]],
   free |-> 1,
   head |-> HeadDummy]

\* initASL that ends the free list one descriptor early: the last of the
\* MAXPROC descriptors is on no list
initASLShort ==
  [semd |-> [d \in Semds |->
               IF d < MAXPROC - 1 THEN [s_next |-> d + 1, s_semAdd |-> NULL, s_procQ |-> mkEmptyProcQ]
               ELSE IF d <= MAXPROC THEN [s_next |-> NULL, s_semAdd |-> NULL, s_procQ |-> mkEmptyProcQ]
               ELSE IF d = HeadDummy THEN [s_next |-> TailDummy, s_semAdd |-> 0, s_procQ |-> mkEmptyProcQ]
               ELSE [s_next |-> NULL, s_semAdd |-> MAX_INT, s_procQ |-> mkEmptyProcQ]],
   free |-> 1,
   head |-> HeadDummy]

initASL ==
  [semd |-> [d \in Semds |->
               IF d < MAXPROC THEN [s_next |-> d + 1, s_semAdd |-> NULL, s_procQ |-> mkEmptyProcQ]
               ELSE IF d = MAXPROC THEN [s_next |-> NULL, s_semAdd |-> NULL, s_procQ |-> mkEmptyProcQ]
               ELSE IF d = HeadDummy THEN [s_next |-> TailDummy, s_semAdd |-> 0, s_procQ |-> mkEmptyProcQ]
               ELSE [s_next |-> NULL, s_semAdd |-> MAX_INT, s_procQ |-> mkEmptyProcQ]],
   free |-> 1,
   head |-> HeadDummy]

RECURSIVE traverseLoop(_, _, _)
traverseLoop(sd, semAdd, iter) ==
  IF semAdd > sd[sd[iter].s_next].s_semAdd /\ sd[iter].s_semAdd < MAX_INT
  THEN traverseLoop(sd, semAdd, sd[iter].s_next)
  ELSE iter

\* The number of times the scan executes iter = iter->s_next, n of them done;
\* MAXPROC + 3 for a scan that follows more links than there are descriptors
\* or reaches NULL
RECURSIVE traverseSteps(_, _, _, _)
traverseSteps(sd, semAdd, iter, n) ==
  IF n > MAXPROC + 2 \/ iter = NULL THEN MAXPROC + 3
  ELSE IF sd[iter].s_next = NULL THEN MAXPROC + 3
  ELSE IF semAdd > sd[sd[iter].s_next].s_semAdd /\ sd[iter].s_semAdd < MAX_INT
  THEN traverseSteps(sd, semAdd, sd[iter].s_next, n + 1)
  ELSE n

\* The links traverseASL follows
traverseASLSteps(sd, head, semAdd) ==
  IF semAdd = NULL THEN 0 ELSE traverseSteps(sd, semAdd, head, 0)

\* The scan with >= for >: it walks past the descriptor that holds semAdd
RECURSIVE traverseLoopGe(_, _, _)
traverseLoopGe(sd, semAdd, iter) ==
  IF semAdd >= sd[sd[iter].s_next].s_semAdd /\ sd[iter].s_semAdd < MAX_INT
  THEN traverseLoopGe(sd, semAdd, sd[iter].s_next)
  ELSE iter

traverseASLGe(sd, head, semAdd) ==
  IF semAdd = NULL THEN NULL ELSE traverseLoopGe(sd, semAdd, head)

\* traverseASL that returns the node the scan stopped in front of
traverseASLHolder(sd, head, semAdd) ==
  IF semAdd = NULL THEN NULL ELSE sd[traverseLoop(sd, semAdd, head)].s_next

traverseASL(sd, head, semAdd) ==
  IF semAdd = NULL THEN NULL ELSE traverseLoop(sd, semAdd, head)

\* removeEmptySemd that leaves the emptied descriptor on the ASL
removeEmptySemdKeep(sd, free, semdLoc) == [semd |-> sd, free |-> free]

\* removeEmptySemd that takes the emptied descriptor off the ASL and does not
\* put it on the free list
removeEmptySemdLeak(sd, free, semdLoc) ==
  IF semdLoc = NULL THEN [semd |-> sd, free |-> free]
  ELSE LET semdCurr == sd[semdLoc].s_next IN
       IF semdCurr = NULL \/ ~emptyProcQ(sd[semdCurr].s_procQ)
       THEN [semd |-> sd, free |-> free]
       ELSE LET s1 == [sd EXCEPT ![semdLoc].s_next = sd[semdCurr].s_next]
                s2 == [s1 EXCEPT ![semdCurr].s_procQ = mkEmptyProcQ]
            IN  [semd |-> s2, free |-> free]

removeEmptySemd(sd, free, semdLoc) ==
  IF semdLoc = NULL THEN [semd |-> sd, free |-> free]
  ELSE LET semdCurr == sd[semdLoc].s_next IN
       IF semdCurr = NULL \/ ~emptyProcQ(sd[semdCurr].s_procQ)
       THEN [semd |-> sd, free |-> free]
       ELSE LET s1 == [sd EXCEPT ![semdLoc].s_next = sd[semdCurr].s_next]
                s2 == [s1 EXCEPT ![semdCurr].s_procQ = mkEmptyProcQ]
                s3 == [s2 EXCEPT ![semdCurr].s_next = free]
            IN  [semd |-> s3, free |-> semdCurr]

\* insertBlocked that links a new descriptor right after the head dummy
\* instead of after the node traverseASL found
insertBlockedAtHead(h, sd, free, head, semAdd, p) ==
  IF p = NULL \/ semAdd = NULL
  THEN [pcb |-> h, semd |-> sd, free |-> free, ret |-> TRUE_]
  ELSE LET h1      == [h EXCEPT ![p].p_semAdd = semAdd]
           semdLoc == traverseASL(sd, head, semAdd)
           nxt     == sd[semdLoc].s_next
       IN  IF sd[nxt].s_semAdd = semAdd
           THEN LET q == insertProcQ(h1, sd[nxt].s_procQ, p) IN
                [pcb |-> q.pcb, semd |-> [sd EXCEPT ![nxt].s_procQ = q.tp],
                 free |-> free, ret |-> FALSE_]
           ELSE IF free = NULL
           THEN [pcb |-> h1, semd |-> sd, free |-> free, ret |-> TRUE_]
           ELSE LET semdIns == free
                    free1   == sd[free].s_next
                    s1      == [sd EXCEPT ![semdIns].s_next = sd[head].s_next]
                    s2      == [s1 EXCEPT ![head].s_next = semdIns]
                    s3      == [s2 EXCEPT ![semdIns].s_procQ = mkEmptyProcQ]
                    s4      == [s3 EXCEPT ![semdIns].s_semAdd = semAdd]
                    q       == insertProcQ(h1, s4[semdIns].s_procQ, p)
                IN  [pcb |-> q.pcb, semd |-> [s4 EXCEPT ![semdIns].s_procQ = q.tp],
                     free |-> free1, ret |-> FALSE_]

\* insertBlocked with the store into p_semAdd moved above the test for a null
\* semAdd
insertBlockedStoreFirst(h, sd, free, head, semAdd, p) ==
  IF p = NULL
  THEN [pcb |-> h, semd |-> sd, free |-> free, ret |-> TRUE_]
  ELSE IF semAdd = NULL
  THEN [pcb |-> [h EXCEPT ![p].p_semAdd = semAdd], semd |-> sd, free |-> free, ret |-> TRUE_]
  ELSE LET h1      == [h EXCEPT ![p].p_semAdd = semAdd]
           semdLoc == traverseASL(sd, head, semAdd)
           nxt     == sd[semdLoc].s_next
       IN  IF sd[nxt].s_semAdd = semAdd
           THEN LET q == insertProcQ(h1, sd[nxt].s_procQ, p) IN
                [pcb |-> q.pcb, semd |-> [sd EXCEPT ![nxt].s_procQ = q.tp],
                 free |-> free, ret |-> FALSE_]
           ELSE IF free = NULL
           THEN [pcb |-> h1, semd |-> sd, free |-> free, ret |-> TRUE_]
           ELSE LET semdIns == free
                    free1   == sd[free].s_next
                    s1      == [sd EXCEPT ![semdIns].s_next = sd[semdLoc].s_next]
                    s2      == [s1 EXCEPT ![semdLoc].s_next = semdIns]
                    s3      == [s2 EXCEPT ![semdIns].s_procQ = mkEmptyProcQ]
                    s4      == [s3 EXCEPT ![semdIns].s_semAdd = semAdd]
                    q       == insertProcQ(h1, s4[semdIns].s_procQ, p)
                IN  [pcb |-> q.pcb, semd |-> [s4 EXCEPT ![semdIns].s_procQ = q.tp],
                     free |-> free1, ret |-> FALSE_]

insertBlocked(h, sd, free, head, semAdd, p) ==
  IF p = NULL \/ semAdd = NULL
  THEN [pcb |-> h, semd |-> sd, free |-> free, ret |-> TRUE_]
  ELSE LET h1      == [h EXCEPT ![p].p_semAdd = semAdd]
           semdLoc == traverseASL(sd, head, semAdd)
           nxt     == sd[semdLoc].s_next
       IN  IF sd[nxt].s_semAdd = semAdd
           THEN LET q == insertProcQ(h1, sd[nxt].s_procQ, p) IN
                [pcb |-> q.pcb, semd |-> [sd EXCEPT ![nxt].s_procQ = q.tp],
                 free |-> free, ret |-> FALSE_]
           ELSE IF free = NULL
           THEN [pcb |-> h1, semd |-> sd, free |-> free, ret |-> TRUE_]
           ELSE LET semdIns == free
                    free1   == sd[free].s_next
                    s1      == [sd EXCEPT ![semdIns].s_next = sd[semdLoc].s_next]
                    s2      == [s1 EXCEPT ![semdLoc].s_next = semdIns]
                    s3      == [s2 EXCEPT ![semdIns].s_procQ = mkEmptyProcQ]
                    s4      == [s3 EXCEPT ![semdIns].s_semAdd = semAdd]
                    q       == insertProcQ(h1, s4[semdIns].s_procQ, p)
                IN  [pcb |-> q.pcb, semd |-> [s4 EXCEPT ![semdIns].s_procQ = q.tp],
                     free |-> free1, ret |-> FALSE_]

\* outBlocked that clears p_semAdd as soon as it has read it, before it looks
\* for the descriptor
outBlockedClearFirst(h, sd, free, head, p) ==
  IF p = NULL THEN [pcb |-> h, semd |-> sd, free |-> free, ret |-> NULL]
  ELSE IF h[p].p_semAdd = NULL THEN [pcb |-> h, semd |-> sd, free |-> free, ret |-> NULL]
  ELSE LET semdLoc == traverseASL(sd, head, h[p].p_semAdd)
           nxt     == sd[semdLoc].s_next
           h0      == [h EXCEPT ![p].p_semAdd = NULL]
       IN  IF sd[nxt].s_semAdd # h[p].p_semAdd \/ emptyProcQ(sd[nxt].s_procQ)
           THEN [pcb |-> h0, semd |-> sd, free |-> free, ret |-> NULL]
           ELSE LET q     == outProcQ(h0, sd[nxt].s_procQ, p)
                    s1    == [sd EXCEPT ![nxt].s_procQ = q.tp]
                    pcbRm == q.ret
                IN  IF pcbRm # NULL
                    THEN LET r == removeEmptySemd(s1, free, semdLoc) IN
                         [pcb |-> q.pcb, semd |-> r.semd, free |-> r.free, ret |-> pcbRm]
                    ELSE [pcb |-> q.pcb, semd |-> s1, free |-> free, ret |-> pcbRm]

outBlocked(h, sd, free, head, p) ==
  IF p = NULL THEN [pcb |-> h, semd |-> sd, free |-> free, ret |-> NULL]
  ELSE IF h[p].p_semAdd = NULL THEN [pcb |-> h, semd |-> sd, free |-> free, ret |-> NULL]
  ELSE LET semdLoc == traverseASL(sd, head, h[p].p_semAdd)
           nxt     == sd[semdLoc].s_next
       IN  IF sd[nxt].s_semAdd # h[p].p_semAdd \/ emptyProcQ(sd[nxt].s_procQ)
           THEN [pcb |-> h, semd |-> sd, free |-> free, ret |-> NULL]
           ELSE LET q     == outProcQ(h, sd[nxt].s_procQ, p)
                    s1    == [sd EXCEPT ![nxt].s_procQ = q.tp]
                    pcbRm == q.ret
                IN  IF pcbRm # NULL
                    THEN LET r == removeEmptySemd(s1, free, semdLoc) IN
                         [pcb |-> [q.pcb EXCEPT ![pcbRm].p_semAdd = NULL],
                          semd |-> r.semd, free |-> r.free, ret |-> pcbRm]
                    ELSE [pcb |-> q.pcb, semd |-> s1, free |-> free, ret |-> pcbRm]

\* headBlocked that takes the queue's tail pointer for its head
headBlockedTail(h, sd, head, semAdd) ==
  LET semdLoc == sd[traverseASL(sd, head, semAdd)].s_next IN
  IF sd[semdLoc].s_semAdd # semAdd \/ emptyProcQ(sd[semdLoc].s_procQ)
  THEN [pcb |-> h, ret |-> NULL]
  ELSE LET pcbRet == sd[semdLoc].s_procQ IN
       [pcb |-> [h EXCEPT ![pcbRet].p_semAdd = semAdd], ret |-> pcbRet]

\* Called with a non-null semAdd here.
headBlocked(h, sd, head, semAdd) ==
  LET semdLoc == sd[traverseASL(sd, head, semAdd)].s_next IN
  IF sd[semdLoc].s_semAdd # semAdd \/ emptyProcQ(sd[semdLoc].s_procQ)
  THEN [pcb |-> h, ret |-> NULL]
  ELSE LET pcbRet == headProcQ(h, sd[semdLoc].s_procQ) IN
       [pcb |-> [h EXCEPT ![pcbRet].p_semAdd = semAdd], ret |-> pcbRet]

removeBlocked(h, sd, free, head, semAdd) ==
  LET hb == headBlocked(h, sd, head, semAdd) IN
  outBlocked(hb.pcb, sd, free, head, hb.ret)

\* headBlocked with the null address: traverseASL returns NULL (asl.c:15) and
\* line 97 reads s_next through it.  That read is undefined, so the result is
\* the set of what the call can do: stop or return NULL with nothing stored,
\* or, when the words it read pass the test of line 99, return some PCB after
\* storing the null address in its p_semAdd (line 102).  deref tells that
\* NULL was read through.
headBlockedNull(h, sd, head) ==
  IF traverseASL(sd, head, NULL) # NULL
  THEN {[pcb |-> headBlocked(h, sd, head, NULL).pcb,
         ret |-> headBlocked(h, sd, head, NULL).ret, deref |-> FALSE]}
  ELSE {[pcb |-> h, ret |-> NULL, deref |-> TRUE]}
         \cup {[pcb |-> [h EXCEPT ![p].p_semAdd = NULL], ret |-> p, deref |-> TRUE] :
                 p \in Pcbs}

\* removeBlocked with the null address: outBlocked of whatever headBlocked gave
removeBlockedNull(h, sd, free, head) ==
  {[pcb |-> outBlocked(hb.pcb, sd, free, head, hb.ret).pcb,
    semd |-> outBlocked(hb.pcb, sd, free, head, hb.ret).semd,
    free |-> outBlocked(hb.pcb, sd, free, head, hb.ret).free,
    ret |-> outBlocked(hb.pcb, sd, free, head, hb.ret).ret,
    deref |-> hb.deref] : hb \in headBlockedNull(h, sd, head)}


----------------------------------------------------------------------------
(* The calls of the layer above, after initPcbs() and initASL() *)

\* s without its element x
RECURSIVE SeqWithout(_, _)
SeqWithout(s, x) ==
  IF s = <<>> THEN <<>>
  ELSE IF Head(s) = x THEN Tail(s)
  ELSE <<Head(s)>> \o SeqWithout(Tail(s), x)

SeqSet(s) == {s[i] : i \in 1..Len(s)}

\* What the caller knows of a PCB it holds: it is in rq, blocked, or neither
InReady(p) == p \in SeqSet(qseq)

IsBlocked(p) == \E k \in Keys : p \in SeqSet(blk[k])

Detached(p) == p \in held /\ ~InReady(p) /\ ~IsBlocked(p)

Call(op, p, ret) == [op |-> op, p |-> p, ret |-> ret]

Init ==
  /\ pcb = initPcbs.pcb
  /\ pcbFree_h = initPcbs.free
  /\ semd = initASL.semd
  /\ semd_h = initASL.head
  /\ semdFree_h = initASL.free
  /\ rq = mkEmptyProcQ
  /\ held = {}
  /\ qseq = <<>>
  /\ blk = [k \in Keys |-> <<>>]
  /\ call = Call("init", NULL, NULL)
  /\ ncalls = 0
  /\ kids = [p \in Pcbs |-> <<>>]
  /\ fault = FALSE

\* n calls of allocPcb in a row, as the test program makes them
\* (src/unnamed/part_002:133-136)
RECURSIVE allocAll(_, _, _)
allocAll(h, free, n) ==
  IF n = 0 THEN [pcb |-> h, free |-> free]
  ELSE LET r == allocPcb(h, free) IN allocAll(r.pcb, r.free, n - 1)

\* The state after initPcbs(), initASL() and MAXPROC successful allocPcb calls
InitASL ==
  /\ pcb = allocAll(initPcbs.pcb, initPcbs.free, MAXPROC).pcb
  /\ pcbFree_h = allocAll(initPcbs.pcb, initPcbs.free, MAXPROC).free
  /\ semd = initASL.semd
  /\ semd_h = initASL.head
  /\ semdFree_h = initASL.free
  /\ rq = mkEmptyProcQ
  /\ held = Pcbs
  /\ qseq = <<>>
  /\ blk = [k \in Keys |-> <<>>]
  /\ call = Call("init", NULL, NULL)
  /\ ncalls = 0
  /\ kids = [p \in Pcbs |-> <<>>]
  /\ fault = FALSE

AllocPcb ==
  LET r == allocPcb(pcb, pcbFree_h) IN
  /\ pcb' = r.pcb
  /\ pcbFree_h' = r.free
  /\ held' = IF r.ret = NULL THEN held ELSE held \cup {r.ret}
  /\ call' = Call("allocPcb", NULL, r.ret)
  /\ UNCHANGED <<rq, qseq, aslVars, treeVars>>

\* freePcb on a PCB the caller holds and has taken out of every queue
FreePcb ==
  \E p \in held :
    /\ Detached(p)
    /\ LET r == freePcb(pcb, pcbFree_h, p) IN
       /\ pcb' = r.pcb
       /\ pcbFree_h' = r.free
    /\ held' = held \ {p}
    /\ call' = Call("freePcb", p, NULL)
    /\ UNCHANGED <<rq, qseq, aslVars, treeVars>>

\* freePcb(NULL)
FreePcbNull ==
  LET r == freePcb(pcb, pcbFree_h, NULL) IN
  /\ pcb' = r.pcb
  /\ pcbFree_h' = r.free
  /\ UNCHANGED <<rq, held, qseq, call, aslVars, treeVars>>

\* The holder of a PCB stores into its status fields (pcb_t,
\* src/unnamed/part_004:27-28): it saves a processor state in p_s or charges
\* time to p_time
StorePcb ==
  \E p \in held :
    /\ \/ pcb[p].p_s = 0 /\ pcb' = [pcb EXCEPT ![p].p_s = 1]
       \/ pcb[p].p_time = 0 /\ pcb' = [pcb EXCEPT ![p].p_time = 1]
    /\ call' = Call("store", p, NULL)
    /\ UNCHANGED <<pcbFree_h, rq, held, qseq, aslVars, treeVars>>

\* insertProcQ on a held PCB that is in no queue
InsertProcQ ==
  \E p \in held :
    /\ Detached(p)
    /\ LET r == insertProcQ(pcb, rq, p) IN
       /\ pcb' = r.pcb
       /\ rq' = r.tp
    /\ qseq' = Append(qseq, p)
    /\ call' = Call("insertProcQ", p, NULL)
    /\ UNCHANGED <<pcbFree_h, held, aslVars, treeVars>>

RemoveProcQ ==
  LET r == removeProcQ(pcb, rq) IN
  /\ pcb' = r.pcb
  /\ rq' = r.tp
  /\ qseq' = IF r.ret = NULL THEN qseq ELSE SeqWithout(qseq, r.ret)
  /\ call' = Call("removeProcQ", NULL, r.ret)
  /\ UNCHANGED <<pcbFree_h, held, aslVars, treeVars>>

\* outProcQ on a PCB the caller inserted into rq and has not got back
OutProcQ ==
  \E p \in SeqSet(qseq) :
    LET r == outProcQ(pcb, rq, p) IN
    /\ pcb' = r.pcb
    /\ rq' = r.tp
    /\ qseq' = IF r.ret = NULL THEN qseq ELSE SeqWithout(qseq, r.ret)
    /\ call' = Call("outProcQ", p, r.ret)
    /\ UNCHANGED <<pcbFree_h, held, aslVars, treeVars>>

\* insertBlocked on a held PCB that is in no queue; the caller takes the
\* lowest-numbered one it has
InsertBlocked ==
  \E k \in Keys, p \in held :
    /\ ncalls < MaxCalls
    /\ Detached(p)
    /\ \A q \in held : Detached(q) => p <= q
    /\ LET r == insertBlocked(pcb, semd, semdFree_h, semd_h, k, p) IN
       /\ pcb' = r.pcb
       /\ semd' = r.semd
       /\ semdFree_h' = r.free
       /\ blk' = IF r.ret = FALSE_ THEN [blk EXCEPT ![k] = Append(@, p)] ELSE blk
       /\ ncalls' = IF r.ret = FALSE_ THEN ncalls + 1 ELSE ncalls
    /\ UNCHANGED <<pcbFree_h, semd_h, rq, held, qseq, call, treeVars>>

RemoveBlocked ==
  \E k \in Keys :
    /\ ncalls < MaxCalls
    /\ LET r == removeBlocked(pcb, semd, semdFree_h, semd_h, k) IN
       /\ pcb' = r.pcb
       /\ semd' = r.semd
       /\ semdFree_h' = r.free
       /\ blk' = IF r.ret = NULL THEN blk ELSE [j \in Keys |-> SeqWithout(blk[j], r.ret)]
       /\ ncalls' = IF r.ret = NULL THEN ncalls ELSE ncalls + 1
    /\ UNCHANGED <<pcbFree_h, semd_h, rq, held, qseq, call, treeVars>>

\* outBlocked on any held PCB that is not in rq, blocked or not
OutBlocked ==
  \E p \in held :
    /\ ncalls < MaxCalls
    /\ ~InReady(p)
    /\ LET r == outBlocked(pcb, semd, semdFree_h, semd_h, p) IN
       /\ pcb' = r.pcb
       /\ semd' = r.semd
       /\ semdFree_h' = r.free
       /\ blk' = IF r.ret = NULL THEN blk ELSE [j \in Keys |-> SeqWithout(blk[j], r.ret)]
       /\ ncalls' = IF r.ret = NULL THEN ncalls ELSE ncalls + 1
    /\ UNCHANGED <<pcbFree_h, semd_h, rq, held, qseq, call, treeVars>>

\* insertBlocked with a null semaphore address or a null PCB
InsertBlockedNull ==
  \E a \in {<<NULL, p>> : p \in held \cup {NULL}} \cup {<<k, NULL>> : k \in Keys} :
    /\ LET r == insertBlocked(pcb, semd, semdFree_h, semd_h, a[1], a[2]) IN
       /\ pcb' = r.pcb
       /\ semd' = r.semd
       /\ semdFree_h' = r.free
    /\ UNCHANGED <<pcbFree_h, semd_h, rq, held, qseq, blk, ncalls, call, treeVars>>

\* outBlocked(NULL)
OutBlockedNull ==
  LET r == outBlocked(pcb, semd, semdFree_h, semd_h, NULL) IN
  /\ pcb' = r.pcb
  /\ semd' = r.semd
  /\ semdFree_h' = r.free
  /\ UNCHANGED <<pcbFree_h, semd_h, rq, held, qseq, blk, ncalls, call, treeVars>>

HeadBlocked ==
  \E k \in Keys :
    /\ ncalls < MaxCalls
    /\ pcb' = headBlocked(pcb, semd, semd_h, k).pcb
    /\ UNCHANGED <<pcbFree_h, rq, held, qseq, call, aslVars, treeVars>>

\* headBlocked(NULL); what follows the first read through NULL is not modelled
HeadBlockedNull ==
  \E o \in headBlockedNull(pcb, semd, semd_h) :
    /\ ~fault
    /\ pcb' = o.pcb
    /\ fault' = o.deref
    /\ call' = Call("headBlocked", NULL, o.ret)
    /\ UNCHANGED <<pcbFree_h, rq, held, qseq, aslVars, kids>>

\* removeBlocked(NULL)
RemoveBlockedNull ==
  \E o \in removeBlockedNull(pcb, semd, semdFree_h, semd_h) :
    /\ ~fault
    /\ pcb' = o.pcb
    /\ semd' = o.semd
    /\ semdFree_h' = o.free
    /\ fault' = o.deref
    /\ call' = Call("removeBlocked", NULL, o.ret)
    /\ UNCHANGED <<pcbFree_h, semd_h, rq, held, qseq, blk, ncalls, kids>>

\* p and the PCBs above it in the tree, along p_parent
RECURSIVE Above(_, _, _)
Above(h, p, fuel) ==
  IF p = NULL \/ fuel = 0 THEN {} ELSE {p} \cup Above(h, h[p].p_parent, fuel - 1)

HasParent(p) == \E q \in Pcbs : p \in SeqSet(kids[q])

\* insertChild of a held PCB that has no parent, under a held PCB that is not
\* below it
InsertChild ==
  \E prnt \in held, p \in held :
    /\ ~HasParent(p)
    /\ p \notin Above(pcb, prnt, MAXPROC)
    /\ pcb' = insertChild(pcb, prnt, p)
    /\ kids' = [kids EXCEPT ![prnt] = <<p>> \o @]
    /\ call' = Call("insertChild", p, NULL)
    /\ UNCHANGED <<pcbFree_h, rq, held, qseq, aslVars, fault>>

RemoveChild ==
  \E prnt \in held :
    LET r == removeChild(pcb, prnt) IN
    /\ pcb' = r.pcb
    /\ kids' = IF r.ret = NULL THEN kids ELSE [q \in Pcbs |-> SeqWithout(kids[q], r.ret)]
    /\ call' = Call("removeChild", prnt, r.ret)
    /\ UNCHANGED <<pcbFree_h, rq, held, qseq, aslVars, fault>>

OutChild ==
  \E p \in held :
    LET r == outChild(pcb, p) IN
    /\ pcb' = r.pcb
    /\ kids' = IF r.ret = NULL THEN kids ELSE [q \in Pcbs |-> SeqWithout(kids[q], r.ret)]
    /\ call' = Call("outChild", p, r.ret)
    /\ UNCHANGED <<pcbFree_h, rq, held, qseq, aslVars, fault>>

\* outChild(NULL)
OutChildNull ==
  LET r == outChild(pcb, NULL) IN
  /\ pcb' = r.pcb
  /\ call' = Call("outChild", NULL, r.ret)
  /\ UNCHANGED <<pcbFree_h, rq, held, qseq, aslVars, treeVars>>

\* removeChild(NULL)
RemoveChildNull ==
  LET r == removeChild(pcb, NULL) IN
  /\ pcb' = r.pcb
  /\ call' = Call("removeChild", NULL, r.ret)
  /\ UNCHANGED <<pcbFree_h, rq, held, qseq, aslVars, treeVars>>

\* The pool, with one FIFO queue used through insertProcQ and removeProcQ
NextPool == AllocPcb \/ FreePcb \/ FreePcbNull \/ InsertProcQ \/ RemoveProcQ

SpecPool == Init /\ [][NextPool]_vars

\* The pool, with PCBs whose status fields were used before they are freed
NextFields == AllocPcb \/ FreePcb \/ StorePcb

SpecFields == Init /\ [][NextFields]_vars

\* One process queue with removal at any position
NextQueue == AllocPcb \/ InsertProcQ \/ RemoveProcQ \/ OutProcQ

SpecQueue == Init /\ [][NextQueue]_vars

\* The active semaphore list, used with all MAXPROC PCBs of the pool
NextASL ==
  \/ InsertBlocked \/ RemoveBlocked \/ OutBlocked \/ HeadBlocked
  \/ InsertBlockedNull \/ OutBlockedNull

SpecASL == InitASL /\ [][NextASL]_vars

\* The active semaphore list under the three calls that change it, with valid
\* arguments
NextBlocked == InsertBlocked \/ RemoveBlocked \/ OutBlocked

SpecBlocked == InitASL /\ [][NextBlocked]_vars

\* The process tree over the MAXPROC PCBs of the pool
NextTree == InsertChild \/ RemoveChild \/ OutChild \/ OutChildNull \/ RemoveChildNull

SpecTree == InitASL /\ [][NextTree]_vars

\* The active semaphore list, with calls that pass the null address as the key
NextNullKey == InsertBlocked \/ RemoveBlocked \/ HeadBlockedNull \/ RemoveBlockedNull

SpecNullKey == InitASL /\ [][NextNullKey]_vars

----------------------------------------------------------------------------
(* Views of the heap used to state the properties *)

\* The PCBs on the free list, from its head along p_next
RECURSIVE FreeList(_, _, _)
FreeList(h, n, fuel) ==
  IF n = NULL \/ fuel = 0 THEN <<>> ELSE <<n>> \o FreeList(h, h[n].p_next, fuel - 1)

\* The returns of n allocPcb calls in a row
RECURSIVE AllocRun(_, _, _)
AllocRun(h, free, n) ==
  IF n = 0 THEN <<>>
  ELSE LET r == allocPcb(h, free) IN <<r.ret>> \o AllocRun(r.pcb, r.free, n - 1)

\* The members of the queue with tail tp, from the head along p_next
RECURSIVE QWalk(_, _, _, _)
QWalk(h, tp, n, fuel) ==
  IF n = NULL \/ fuel = 0 THEN <<>>
  ELSE IF n = tp THEN <<n>>
  ELSE <<n>> \o QWalk(h, tp, h[n].p_next, fuel - 1)

QList(h, tp) == IF tp = NULL THEN <<>> ELSE QWalk(h, tp, h[tp].p_next, MAXPROC)

\* The returns of successive removeProcQ calls, until one returns NULL
RECURSIVE Drain(_, _, _)
Drain(h, tp, fuel) ==
  LET r == removeProcQ(h, tp) IN
  IF r.ret = NULL \/ fuel = 0 THEN <<>>
  ELSE <<r.ret>> \o Drain(r.pcb, r.tp, fuel - 1)

\* The descriptors reachable from the head of the ASL along s_next
RECURSIVE ChainFrom(_, _, _)
ChainFrom(sd, d, fuel) ==
  IF d = NULL \/ fuel = 0 THEN <<>> ELSE <<d>> \o ChainFrom(sd, sd[d].s_next, fuel - 1)

AslChain(sd, head) == ChainFrom(sd, head, MAXPROC + 3)

\* The descriptors on the free list, from semdFree_h along s_next
FreeSemds(sd, free) == ChainFrom(sd, free, MAXPROC + 3)

\* The descriptors on the ASL other than the two dummy nodes
ActiveSemds(sd, head) == SeqSet(AslChain(sd, head)) \ {HeadDummy, TailDummy}

DescsOf(sd, head, k) == {d \in ActiveSemds(sd, head) : sd[d].s_semAdd = k}

IsActive(sd, head, k) == DescsOf(sd, head, k) # {}

\* The blocked queue of key k, head first; empty when k is inactive
KeyQueue(h, sd, head, k) ==
  IF IsActive(sd, head, k)
  THEN QList(h, sd[CHOOSE d \in DescsOf(sd, head, k) : TRUE].s_procQ)
  ELSE <<>>

\* The children of prnt, from p_child along p_sib_next
RECURSIVE SibWalk(_, _, _)
SibWalk(h, n, fuel) ==
  IF n = NULL \/ fuel = 0 THEN <<>> ELSE <<n>> \o SibWalk(h, h[n].p_sib_next, fuel - 1)

ChildList(h, prnt) == SibWalk(h, h[prnt].p_child, MAXPROC)

\* The returns of successive removeChild(prnt) calls, until one returns NULL
RECURSIVE DrainChildren(_, _, _)
DrainChildren(h, prnt, fuel) ==
  LET r == removeChild(h, prnt) IN
  IF r.ret = NULL \/ fuel = 0 THEN <<>>
  ELSE <<r.ret>> \o DrainChildren(r.pcb, prnt, fuel - 1)

\* The PCBs below p in the tree: its children, their children, and so on
RECURSIVE Below(_, _, _)
Below(h, p, fuel) ==
  IF fuel = 0 THEN {}
  ELSE LET cs == SeqSet(ChildList(h, p)) IN
       cs \cup UNION {Below(h, c, fuel - 1) : c \in cs}

TreeLinks(h, q) ==
  <<h[q].p_parent, h[q].p_child, h[q].p_sib_next, h[q].p_sib_prev>>

\* The links a PCB has as a member of a process queue
QueueLinks(h, q) == <<h[q].p_next, h[q].p_prev, h[q].p_semAdd>>

\* p is a child of its parent that is neither the first nor the last
MiddleChild(h, p) ==
  /\ h[p].p_parent # NULL
  /\ h[h[p].p_parent].p_child # p
  /\ h[p].p_sib_prev # NULL
  /\ h[p].p_sib_next # NULL

----------------------------------------------------------------------------
(* Properties *)

\* C1 Pool conservation: in every state reached by allocPcb and freePcb on
\* held PCBs, exactly MAXPROC - |held| allocPcb calls in a row succeed and the
\* next returns NULL (so allocPcb succeeds iff fewer than MAXPROC are held, a
\* fresh pool and a pool with everything freed again give exactly MAXPROC),
\* and the PCBs returned are distinct from each other and from those held.
C1_PoolConservation ==
  LET got   == AllocRun(pcb, pcbFree_h, MAXPROC + 1)
      avail == MAXPROC - Cardinality(held)
  IN  /\ \A i \in 1..(MAXPROC + 1) : (got[i] # NULL) <=> (i <= avail)
      /\ \A i \in 1..avail : got[i] \in Pcbs \ held
      /\ \A i, j \in 1..avail : i # j => got[i] # got[j]
      /\ (call.op = "allocPcb" /\ call.ret # NULL) => call.ret \in held

\* Every PCB was allocated and every one has been freed again.
C1_Witness ==
  /\ call.op = "freePcb"
  /\ held = {}
  /\ Len(FreeList(pcb, pcbFree_h, MAXPROC)) = MAXPROC

\* C2 Queue FIFO order: under insertProcQ and removeProcQ, successive
\* removeProcQ calls return the members oldest first, and removeProcQ returns
\* NULL exactly when no member is left.
C2_QueueFifo ==
  /\ Drain(pcb, rq, MAXPROC) = qseq
  /\ removeProcQ(pcb, rq).ret = (IF qseq = <<>> THEN NULL ELSE Head(qseq))
  /\ (call.op = "removeProcQ" /\ call.ret # NULL) => call.ret \notin SeqSet(qseq)

\* removeProcQ has returned the oldest of three members.
C2_Witness ==
  /\ call.op = "removeProcQ"
  /\ call.ret # NULL
  /\ Len(qseq) = 2

\* C3 Removing the tail: for a queue of two or more, outProcQ on the tail
\* returns it, makes its predecessor the tail, and successive removeProcQ
\* calls still return the other members in their order.
C3_OutTailRetargets ==
  Len(QList(pcb, rq)) >= 2 =>
    LET r == outProcQ(pcb, rq, rq) IN
    /\ r.ret = rq
    /\ r.tp = pcb[rq].p_prev
    /\ ~emptyProcQ(r.tp)
    /\ Drain(r.pcb, r.tp, MAXPROC) = SeqWithout(QList(pcb, rq), rq)

\* C4 Removing a member that is not the tail: for a queue of three or more,
\* outProcQ returns the member, leaves the tail pointer alone, and successive
\* removeProcQ calls return the other members in their order.
C4_OutInnerKeepsOrder ==
  LET q == QList(pcb, rq) IN
  Len(q) >= 3 =>
    \A p \in SeqSet(q) \ {rq} :
      LET r == outProcQ(pcb, rq, p) IN
      /\ r.ret = p
      /\ r.tp = rq
      /\ Drain(r.pcb, r.tp, MAXPROC) = SeqWithout(q, p)

\* outProcQ has removed a member and two or more are still queued, so the
\* queue held three or more and the tail was not the one removed.
C4_Witness ==
  /\ call.op = "outProcQ"
  /\ call.ret # NULL
  /\ Len(QList(pcb, rq)) >= 2
  /\ call.ret \notin SeqSet(QList(pcb, rq))

\* C5 blockedOn invariant: p_semAdd of a PCB is non-NULL iff the PCB is a
\* member of the blocked queue of a descriptor on the ASL, and that
\* descriptor's key is then the PCB's p_semAdd.
C5_BlockedOnInvariant ==
  \A p \in Pcbs :
    /\ (pcb[p].p_semAdd # NULL) <=>
         (\E d \in ActiveSemds(semd, semd_h) : p \in SeqSet(QList(pcb, semd[d].s_procQ)))
    /\ \A d \in ActiveSemds(semd, semd_h) :
         p \in SeqSet(QList(pcb, semd[d].s_procQ)) => semd[d].s_semAdd = pcb[p].p_semAdd

\* C6 ASL ordering and uniqueness: the keys of the descriptors reachable from
\* semd_h are strictly ascending, so no key is on two descriptors.
C6_AslAscending ==
  LET c == AslChain(semd, semd_h) IN
  /\ \A i \in 1..(Len(c) - 1) : semd[c[i]].s_semAdd < semd[c[i + 1]].s_semAdd
  /\ \A k \in Keys : Cardinality(DescsOf(semd, semd_h, k)) <= 1

\* Three keys blocked on in the order 3, 1, 2: the descriptors were taken from
\* the free list in the order 1, 2, 3 and stand on the ASL in key order.
C6_Witness ==
  /\ AslChain(semd, semd_h) = <<HeadDummy, 2, 3, 1, TailDummy>>
  /\ semd[2].s_semAdd = 1
  /\ semd[3].s_semAdd = 2
  /\ semd[1].s_semAdd = 3

\* C7 Active iff non-empty: a real descriptor is on the ASL iff its queue is
\* non-empty; a key becomes active only by an insertBlocked on it, and becomes
\* inactive in exactly the removeBlocked or outBlocked call that removes the
\* last PCB blocked on it.
C7_ActiveIffNonEmpty ==
  /\ \A d \in 1..MAXPROC :
       (d \in ActiveSemds(semd, semd_h)) <=> ~emptyProcQ(semd[d].s_procQ)
  /\ \A k \in Keys :
       /\ \A p \in held :
            LET r == outBlocked(pcb, semd, semdFree_h, semd_h, p) IN
            /\ ~IsActive(semd, semd_h, k) => ~IsActive(r.semd, semd_h, k)
            /\ (IsActive(semd, semd_h, k) /\ ~IsActive(r.semd, semd_h, k))
                 <=> (r.ret \in SeqSet(blk[k]) /\ SeqWithout(blk[k], r.ret) = <<>>)
       /\ \A j \in Keys :
            LET r == removeBlocked(pcb, semd, semdFree_h, semd_h, j) IN
            /\ ~IsActive(semd, semd_h, k) => ~IsActive(r.semd, semd_h, k)
            /\ (IsActive(semd, semd_h, k) /\ ~IsActive(r.semd, semd_h, k))
                 <=> (r.ret \in SeqSet(blk[k]) /\ SeqWithout(blk[k], r.ret) = <<>>)
       /\ \A j \in Keys, p \in held :
            Detached(p) =>
              LET r == insertBlocked(pcb, semd, semdFree_h, semd_h, j, p) IN
              /\ IsActive(semd, semd_h, k) => IsActive(r.semd, semd_h, k)
              /\ (~IsActive(semd, semd_h, k) /\ IsActive(r.semd, semd_h, k)) => j = k

\* C8 Semaphore FIFO: removeBlocked(k) returns the PCB blocked on k the
\* longest among those not yet removed, with its p_semAdd cleared, and once
\* none is left removeBlocked(k) and headBlocked(k) return NULL.
C8_SemaphoreFifo ==
  \A k \in Keys :
    LET r == removeBlocked(pcb, semd, semdFree_h, semd_h, k) IN
    /\ r.ret = (IF blk[k] = <<>> THEN NULL ELSE Head(blk[k]))
    /\ r.ret # NULL => r.pcb[r.ret].p_semAdd = NULL
    /\ blk[k] = <<>> => headBlocked(pcb, semd, semd_h, k).ret = NULL

\* C9 outBlocked success: when p is in the queue of the descriptor whose key
\* is p.p_semAdd, at any position, outBlocked(p) returns p with p_semAdd
\* cleared, the other members stay in that key's queue in their order, and the
\* descriptor leaves the ASL only if no member is left.
C9_OutBlockedSuccess ==
  \A p \in Pcbs :
    LET k == pcb[p].p_semAdd IN
    (k # NULL /\ p \in SeqSet(KeyQueue(pcb, semd, semd_h, k))) =>
      LET r      == outBlocked(pcb, semd, semdFree_h, semd_h, p)
          others == SeqWithout(KeyQueue(pcb, semd, semd_h, k), p)
      IN  /\ r.ret = p
          /\ r.pcb[p].p_semAdd = NULL
          /\ KeyQueue(r.pcb, r.semd, semd_h, k) = others
          /\ ~IsActive(r.semd, semd_h, k) => others = <<>>

\* The state after a removal that took the last PCB blocked on key k: the
\* properties C10 claims of it.
Reclaimed(r, k) ==
  /\ headBlocked(r.pcb, r.semd, semd_h, k).ret = NULL
  /\ r.free \in DescsOf(semd, semd_h, k)
  /\ r.free \notin ActiveSemds(r.semd, semd_h)
  /\ \A k2 \in Keys \ {k} :
       ~IsActive(r.semd, semd_h, k2) =>
         LET i == insertBlocked(r.pcb, r.semd, r.free, semd_h, k2, r.ret) IN
         /\ i.ret = FALSE_
         /\ KeyQueue(i.pcb, i.semd, semd_h, k2) = <<r.ret>>

\* C10 Descriptor reclamation: when removeBlocked or outBlocked returns the
\* last PCB blocked on key k, headBlocked(k) then returns NULL and the
\* descriptor that held k heads the descriptor free list, so insertBlocked on
\* any other inactive key succeeds, whatever the other descriptors hold.
C10_DescriptorReclaimed ==
  /\ \A p \in held :
       LET k == pcb[p].p_semAdd
           r == outBlocked(pcb, semd, semdFree_h, semd_h, p)
       IN  (r.ret # NULL /\ SeqWithout(blk[k], r.ret) = <<>>) => Reclaimed(r, k)
  /\ \A k \in Keys :
       LET r == removeBlocked(pcb, semd, semdFree_h, semd_h, k) IN
       (r.ret # NULL /\ SeqWithout(blk[k], r.ret) = <<>>) => Reclaimed(r, k)

\* A removal has just reclaimed the only free descriptor: every other
\* descriptor is in use, its old key is inactive and another key is inactive.
C10_Witness ==
  /\ semdFree_h # NULL
  /\ semd[semdFree_h].s_next = NULL
  /\ semd[semdFree_h].s_semAdd \in Keys
  /\ blk[semd[semdFree_h].s_semAdd] = <<>>
  /\ ~IsActive(semd, semd_h, semd[semdFree_h].s_semAdd)
  /\ Cardinality(ActiveSemds(semd, semd_h)) = MAXPROC - 1
  /\ \E k2 \in Keys \ {semd[semdFree_h].s_semAdd} : ~IsActive(semd, semd_h, k2)

\* C11 Failed insert leaves the state untouched: when key k has no active
\* descriptor and the descriptor free list is empty, insertBlocked(k, p)
\* returns TRUE and changes nothing: not the ASL, the queues or the free list,
\* and no field of p, p_semAdd included.
C11_FailedInsertUntouched ==
  \A k \in Keys, p \in Pcbs :
    (~IsActive(semd, semd_h, k) /\ semdFree_h = NULL) =>
      LET r == insertBlocked(pcb, semd, semdFree_h, semd_h, k, p) IN
      /\ r.ret = TRUE_
      /\ r.semd = semd
      /\ r.free = semdFree_h
      /\ r.pcb = pcb

\* C12 The null key is safe: headBlocked(NULL) and removeBlocked(NULL) return
\* NULL without reading through a null pointer, and leave the ASL, the free
\* list and every PCB as they were.
C12_NullKeySafe ==
  /\ ~fault
  /\ \A o \in headBlockedNull(pcb, semd, semd_h) :
       ~o.deref /\ o.ret = NULL /\ o.pcb = pcb
  /\ \A o \in removeBlockedNull(pcb, semd, semdFree_h, semd_h) :
       ~o.deref /\ o.ret = NULL /\ o.pcb = pcb /\ o.semd = semd /\ o.free = semdFree_h

\* C13 Allocation resets every field: the PCB a successful allocPcb returns
\* has all its links and p_semAdd NULL, p_time 0 and p_s cleared, whatever
\* they held when the PCB was freed.
C13_AllocResetsFields ==
  LET r == allocPcb(pcb, pcbFree_h) IN
  r.ret # NULL => r.pcb[r.ret] = ZeroPcb

C15_OutMiddleChild ==
  \A p \in Pcbs :
    MiddleChild(pcb, p) =>
      LET prnt == pcb[p].p_parent
          prev == pcb[p].p_sib_prev
          next == pcb[p].p_sib_next
          r    == outChild(pcb, p)
      IN  /\ r.ret = p
          /\ r.pcb[prnt].p_child = pcb[prnt].p_child
          /\ r.pcb[prev].p_sib_next = next
          /\ r.pcb[next].p_sib_prev = prev
          /\ ChildList(r.pcb, prnt) = SeqWithout(ChildList(pcb, prnt), p)
          /\ \A c \in SeqSet(ChildList(r.pcb, prnt)) : r.pcb[c].p_parent = prnt
          /\ r.pcb[p].p_parent = NULL
          /\ r.pcb[p].p_sib_prev = NULL
          /\ r.pcb[p].p_sib_next = NULL

\* A parent has three children and outChild takes the middle one out.
C15_Witness ==
  \E p \in Pcbs :
    /\ MiddleChild(pcb, p)
    /\ Len(ChildList(pcb, pcb[p].p_parent)) = 3
    /\ outChild(pcb, p).ret = p
    /\ Len(ChildList(outChild(pcb, p).pcb, pcb[p].p_parent)) = 2

\* C16 Sentinels are permanent: before any insertion the ASL is the head
\* sentinel (key 0) followed by the tail sentinel (key MAX_INT) with the
\* MAXPROC other descriptors on the free list; in every state semd_h is the
\* head sentinel, the list ends at the tail sentinel, neither sentinel is on
\* the free list and both have empty queues.
C16_SentinelsPermanent ==
  LET c == AslChain(semd, semd_h) IN
  /\ ncalls = 0 =>
       /\ c = <<HeadDummy, TailDummy>>
       /\ SeqSet(FreeSemds(semd, semdFree_h)) = 1..MAXPROC
       /\ Len(FreeSemds(semd, semdFree_h)) = MAXPROC
  /\ semd_h = HeadDummy
  /\ semd[HeadDummy].s_semAdd = 0
  /\ c[Len(c)] = TailDummy
  /\ \A i \in 1..Len(c) : (c[i] = HeadDummy <=> i = 1) /\ (c[i] = TailDummy <=> i = Len(c))
  /\ semd[TailDummy].s_semAdd = MAX_INT
  /\ semd[TailDummy].s_next = NULL
  /\ HeadDummy \notin SeqSet(FreeSemds(semd, semdFree_h))
  /\ TailDummy \notin SeqSet(FreeSemds(semd, semdFree_h))
  /\ emptyProcQ(semd[HeadDummy].s_procQ)
  /\ emptyProcQ(semd[TailDummy].s_procQ)

\* Descriptors have been taken next to both sentinels and one has been given
\* back: the lowest and the highest key are active and the free list is headed
\* by a descriptor that held a key.
C16_Witness ==
  /\ IsActive(semd, semd_h, 1)
  /\ IsActive(semd, semd_h, MaxKey)
  /\ semdFree_h # NULL
  /\ semd[semdFree_h].s_semAdd \in Keys
  /\ ~IsActive(semd, semd_h, semd[semdFree_h].s_semAdd)

\* C17 insertBlocked rejects null input: insertBlocked(NULL, p) and
\* insertBlocked(key, NULL) return TRUE and leave the ASL, the descriptor free
\* list and p, its p_semAdd included, as they were.
C17_InsertRejectsNull ==
  \A k \in Keys \cup {NULL}, p \in Pcbs \cup {NULL} :
    (k = NULL \/ p = NULL) =>
      LET r == insertBlocked(pcb, semd, semdFree_h, semd_h, k, p) IN
      /\ r.ret = TRUE_
      /\ r.semd = semd
      /\ r.free = semdFree_h
      /\ r.pcb = pcb

\* insertBlocked(NULL, p) is rejected for a p that is blocked, so that its
\* p_semAdd is set, while a descriptor is free.
C17_Witness ==
  \E p \in Pcbs :
    /\ IsBlocked(p)
    /\ pcb[p].p_semAdd # NULL
    /\ semdFree_h # NULL
    /\ insertBlocked(pcb, semd, semdFree_h, semd_h, NULL, p).ret = TRUE_

\* C18 outBlocked not-found cases: outBlocked(p) returns NULL and leaves the
\* ASL, the queues, the descriptor free list and p as they were when p is
\* NULL, when p.p_semAdd is NULL, and when no descriptor on the ASL has the
\* key p.p_semAdd.
C18_OutBlockedNotFound ==
  \A p \in Pcbs \cup {NULL} :
    (\/ p = NULL
     \/ pcb[p].p_semAdd = NULL
     \/ ~IsActive(semd, semd_h, pcb[p].p_semAdd)) =>
      LET r == outBlocked(pcb, semd, semdFree_h, semd_h, p) IN
      /\ r.ret = NULL
      /\ r.semd = semd
      /\ r.free = semdFree_h
      /\ r.pcb = pcb

\* Each of the three cases is at hand: the null PCB, a PCB that is not
\* blocked, and a PCB whose p_semAdd names a key no descriptor holds, all
\* while another key is active.
C18_Witness ==
  /\ ActiveSemds(semd, semd_h) # {}
  /\ outBlocked(pcb, semd, semdFree_h, semd_h, NULL).ret = NULL
  /\ \E p \in Pcbs :
       pcb[p].p_semAdd = NULL /\ outBlocked(pcb, semd, semdFree_h, semd_h, p).ret = NULL
  /\ \E p \in Pcbs :
       /\ pcb[p].p_semAdd # NULL
       /\ ~IsActive(semd, semd_h, pcb[p].p_semAdd)
       /\ outBlocked(pcb, semd, semdFree_h, semd_h, p).ret = NULL

\* C19 outProcQ on a non-member: when p is not NULL and not in the queue that
\* tp addresses, whether it is in another queue or in none, outProcQ(tp, p)
\* returns NULL and leaves the tail pointer and every link of every PCB, p's
\* included, as they were.
C19_OutNonMember ==
  \A tp \in {mkEmptyProcQ} \cup {semd[d].s_procQ : d \in ActiveSemds(semd, semd_h)} :
    \A p \in Pcbs :
      p \notin SeqSet(QList(pcb, tp)) =>
        LET r == outProcQ(pcb, tp, p) IN
        /\ r.ret = NULL
        /\ r.tp = tp
        /\ r.pcb = pcb

\* Two keys have queues, one of them of two or more; outProcQ on the longer
\* queue is tried with a member of the other queue and with a PCB that is in
\* no queue.
C19_Witness ==
  \E d1, d2 \in ActiveSemds(semd, semd_h) :
    /\ d1 # d2
    /\ Len(QList(pcb, semd[d1].s_procQ)) >= 2
    /\ \E p \in SeqSet(QList(pcb, semd[d2].s_procQ)) :
         outProcQ(pcb, semd[d1].s_procQ, p).ret = NULL
    /\ \E p \in Pcbs :
         /\ ~IsBlocked(p)
         /\ outProcQ(pcb, semd[d1].s_procQ, p).ret = NULL

\* C20 headBlocked is a peek: for an active key k, headBlocked(k) returns the
\* head of k's queue, which is the PCB removeBlocked(k) would return next, a
\* second headBlocked(k) returns the same PCB, and the members and the order
\* of every blocked queue are as before (headBlocked has no access to the ASL
\* links or the free list); for an inactive key it returns NULL.
C20_HeadBlockedPeek ==
  \A k \in Keys :
    LET hb == headBlocked(pcb, semd, semd_h, k) IN
    /\ IsActive(semd, semd_h, k) =>
         /\ hb.ret # NULL
         /\ hb.ret = Head(KeyQueue(pcb, semd, semd_h, k))
         /\ hb.ret = removeBlocked(pcb, semd, semdFree_h, semd_h, k).ret
         /\ headBlocked(hb.pcb, semd, semd_h, k).ret = hb.ret
    /\ ~IsActive(semd, semd_h, k) => hb.ret = NULL
    /\ \A d \in ActiveSemds(semd, semd_h) :
         QList(hb.pcb, semd[d].s_procQ) = QList(pcb, semd[d].s_procQ)

\* A key with two or more PCBs blocked on it is peeked at, and so is an
\* inactive key.
C20_Witness ==
  /\ \E k \in Keys :
       /\ Len(KeyQueue(pcb, semd, semd_h, k)) >= 2
       /\ headBlocked(pcb, semd, semd_h, k).ret = Head(blk[k])
  /\ \E k \in Keys :
       /\ ~IsActive(semd, semd_h, k)
       /\ headBlocked(pcb, semd, semd_h, k).ret = NULL

\* C21 The free list is LIFO: after freePcb(p) on a held PCB the next allocPcb
\* returns p, and freePcb(NULL) leaves the free list and the PCBs as they were.
C21_FreeListLifo ==
  /\ \A p \in held :
       Detached(p) =>
         LET f == freePcb(pcb, pcbFree_h, p) IN
         /\ f.free = p
         /\ allocPcb(f.pcb, f.free).ret = p
  /\ call.op = "freePcb" => allocPcb(pcb, pcbFree_h).ret = call.p
  /\ freePcb(pcb, pcbFree_h, NULL) = [pcb |-> pcb, free |-> pcbFree_h]

\* freePcb has just pushed a PCB onto a free list that already held another.
C21_Witness ==
  /\ call.op = "freePcb"
  /\ pcbFree_h = call.p
  /\ pcb[pcbFree_h].p_next # NULL

\* C22 outChild without a parent: outChild(p) returns NULL and changes no
\* field of any PCB when p is NULL or p.p_parent is NULL, and removeChild(p)
\* returns NULL and changes nothing when p is NULL or p has no children.
C22_NoParentNoChild ==
  /\ \A p \in Pcbs \cup {NULL} :
       (p = NULL \/ pcb[p].p_parent = NULL) =>
         outChild(pcb, p) = [pcb |-> pcb, ret |-> NULL]
  /\ \A p \in Pcbs \cup {NULL} :
       (p = NULL \/ pcb[p].p_child = NULL) =>
         removeChild(pcb, p) = [pcb |-> pcb, ret |-> NULL]
  /\ (call.op \in {"outChild", "removeChild"} /\ call.p = NULL) => call.ret = NULL

\* outChild has returned NULL for a PCB that has no parent but has children,
\* while one of its children has none of its own.
C22_Witness ==
  /\ call.op = "outChild"
  /\ call.p # NULL
  /\ call.ret = NULL
  /\ pcb[call.p].p_parent = NULL
  /\ kids[call.p] # <<>>
  /\ removeChild(pcb, Head(kids[call.p])).ret = NULL

\* The removal r of the PCB r.ret left that PCB's p_child and every tree link
\* of every PCB below it as they were.
KeepsSubtree(r) ==
  /\ r.pcb[r.ret].p_child = pcb[r.ret].p_child
  /\ Below(r.pcb, r.ret, MAXPROC) = Below(pcb, r.ret, MAXPROC)
  /\ \A q \in Below(pcb, r.ret, MAXPROC) : TreeLinks(r.pcb, q) = TreeLinks(pcb, q)

\* C23 outChild does not recurse: outChild(p) and removeChild(parent) leave
\* the removed PCB's p_child and the parent and sibling links of everything
\* below it unchanged, so the removed PCB keeps its subtree.
C23_OutChildKeepsSubtree ==
  /\ \A p \in Pcbs :
       LET r == outChild(pcb, p) IN r.ret # NULL => KeepsSubtree(r)
  /\ \A prnt \in Pcbs :
       LET r == removeChild(pcb, prnt) IN r.ret # NULL => KeepsSubtree(r)
  /\ (call.op \in {"outChild", "removeChild"} /\ call.ret # NULL) =>
       ChildList(pcb, call.ret) = kids[call.ret]

\* outChild has removed a PCB that has a child which has a child of its own.
C23_Witness ==
  /\ call.op = "outChild"
  /\ call.ret # NULL
  /\ kids[call.ret] # <<>>
  /\ kids[Head(kids[call.ret])] # <<>>
  /\ pcb[Head(kids[call.ret])].p_parent = call.ret

\* C24 Queue circularity: after any insertProcQ, removeProcQ and outProcQ
\* calls, following p_next from the tail visits exactly the PCBs inserted and
\* not yet removed and comes back to the tail; every member n has
\* n.p_next.p_prev = n and n.p_prev.p_next = n; the tail's p_next is the
\* head; a single member points to itself both ways; and the tail pointer is
\* NULL iff no member is left.
C24_QueueCircular ==
  /\ emptyProcQ(rq) <=> qseq = <<>>
  /\ QList(pcb, rq) = qseq
  /\ \A n \in SeqSet(qseq) :
       /\ pcb[n].p_next # NULL /\ pcb[n].p_prev # NULL
       /\ pcb[pcb[n].p_next].p_prev = n
       /\ pcb[pcb[n].p_prev].p_next = n
  /\ qseq # <<>> => (~emptyProcQ(rq) /\ pcb[rq].p_next = Head(qseq) /\ rq = qseq[Len(qseq)])
  /\ Len(qseq) = 1 => (~emptyProcQ(rq) /\ pcb[rq].p_next = rq /\ pcb[rq].p_prev = rq)

\* The keys of the descriptors of chain c
KeysOf(sd, c) == [i \in 1..Len(c) |-> sd[c[i]].s_semAdd]

\* C25 insertBlocked descriptor use: on a key that has a descriptor,
\* insertBlocked returns FALSE, appends p at the tail of that queue and leaves
\* the free list and the descriptors of the ASL as they were; on an inactive
\* key with a descriptor free it returns FALSE, takes exactly the first
\* descriptor off the free list, links it into the ASL where the keys stay
\* ascending, and makes p the only member of its queue; either way p.p_semAdd
\* is the key afterwards.
C25_InsertBlockedDescUse ==
  LET chain == AslChain(semd, semd_h)
      frees == FreeSemds(semd, semdFree_h)
      det   == {p \in held : Detached(p)}
      used  == {semd[d].s_semAdd : d \in SeqSet(chain)}
  IN  \A k \in Keys, p \in det :
        (k \in used \/ semdFree_h # NULL) =>
          LET r      == insertBlocked(pcb, semd, semdFree_h, semd_h, k, p)
              chain1 == AslChain(r.semd, semd_h)
              keys1  == KeysOf(r.semd, chain1)
          IN  /\ r.ret = FALSE_
              /\ r.pcb[p].p_semAdd = k
              /\ IF k \in used
                 THEN /\ KeyQueue(r.pcb, r.semd, semd_h, k)
                           = Append(KeyQueue(pcb, semd, semd_h, k), p)
                      /\ chain1 = chain
                      /\ r.free = semdFree_h
                      /\ FreeSemds(r.semd, r.free) = frees
                 ELSE /\ FreeSemds(r.semd, r.free) = Tail(frees)
                      /\ SeqSet(chain1) = SeqSet(chain) \cup {semdFree_h}
                      /\ Len(chain1) = Len(chain) + 1
                      /\ SeqWithout(chain1, semdFree_h) = chain
                      /\ \A i \in 1..(Len(chain1) - 1) : keys1[i] < keys1[i + 1]
                      /\ r.semd[semdFree_h].s_semAdd = k
                      /\ KeyQueue(r.pcb, r.semd, semd_h, k) = <<p>>

\* Keys 1 and 3 are active, key 2 is not, a descriptor is free and a PCB is
\* in no queue: an insertion on key 1 appends, one on key 2 takes a descriptor
\* that has to go between two others.
C25_Witness ==
  /\ IsActive(semd, semd_h, 1)
  /\ ~IsActive(semd, semd_h, 2)
  /\ IsActive(semd, semd_h, 3)
  /\ semdFree_h # NULL
  /\ \E p \in held :
       /\ Detached(p)
       /\ insertBlocked(pcb, semd, semdFree_h, semd_h, 1, p).ret = FALSE_
       /\ insertBlocked(pcb, semd, semdFree_h, semd_h, 2, p).free # semdFree_h

\* C26 removeProcQ and the tail pointer: on a queue of one member removeProcQ
\* returns it and sets the tail pointer to NULL; on a queue of two or more it
\* returns the head, which is the tail's p_next, and leaves the tail pointer
\* alone; headProcQ returns what removeProcQ would return, NULL on an empty
\* queue.
C26_RemoveHeadKeepsTail ==
  LET q == QList(pcb, rq)
      r == removeProcQ(pcb, rq)
  IN  /\ Len(q) = 1 => (r.ret = rq /\ r.ret = q[1] /\ emptyProcQ(r.tp))
      /\ Len(q) >= 2 => (r.ret = pcb[rq].p_next /\ r.ret = q[1] /\ r.tp = rq)
      /\ headProcQ(pcb, rq) = r.ret
      /\ emptyProcQ(rq) => (headProcQ(pcb, rq) = NULL /\ r.ret = NULL /\ r.pcb = pcb)

\* removeProcQ has taken the head of a queue of three: two members are left
\* in their order, and the fourth PCB is held and in no queue.
C26_Witness ==
  /\ call.op = "removeProcQ"
  /\ call.ret # NULL
  /\ Len(QList(pcb, rq)) = 2
  /\ qseq = QList(pcb, rq)
  /\ Cardinality(held) = MAXPROC
  /\ \E p \in held : Detached(p) /\ p # call.ret /\ pcb[p].p_next = NULL

\* C27 Predecessor lookup: for every key between the sentinel keys,
\* traverseASL(key) returns the descriptor d on the ASL with
\* d.key < key <= d.s_next.key, so d.s_next holds the key exactly when the key
\* is active.
C27_TraversePredecessor ==
  \A k \in Keys :
    LET d == traverseASL(semd, semd_h, k) IN
    /\ d \in SeqSet(AslChain(semd, semd_h))
    /\ d # TailDummy
    /\ semd[d].s_semAdd < k
    /\ k <= semd[semd[d].s_next].s_semAdd
    /\ (semd[semd[d].s_next].s_semAdd = k) <=> IsActive(semd, semd_h, k)

\* Keys 2 and 4 are active and key 3 is not: the lookups of 3 and of 4 both
\* stop at the descriptor of 2, the lookup of 5 at the descriptor of 4, and
\* the lookup of 1 at the head sentinel.
C27_Witness ==
  /\ IsActive(semd, semd_h, 2)
  /\ ~IsActive(semd, semd_h, 3)
  /\ IsActive(semd, semd_h, 4)
  /\ ~IsActive(semd, semd_h, 1)
  /\ ~IsActive(semd, semd_h, 5)
  /\ semd[traverseASL(semd, semd_h, 3)].s_semAdd = 2
  /\ traverseASL(semd, semd_h, 4) = traverseASL(semd, semd_h, 3)
  /\ semd[traverseASL(semd, semd_h, 5)].s_semAdd = 4
  /\ traverseASL(semd, semd_h, 1) = HeadDummy

\* C28 Queues are independent: insertProcQ, removeProcQ and outProcQ on one
\* tail pointer leave the members and the order of every other queue as they
\* were, no PCB being in two queues; and a removal from the blocked queue of
\* one semaphore leaves the blocked queue of every other semaphore as it was.
C28_QueuesIndependent ==
  LET act == ActiveSemds(semd, semd_h) IN
  /\ \A d \in act :
       LET tp        == semd[d].s_procQ
           Others(h) == \A d2 \in act \ {d} :
                          QList(h, semd[d2].s_procQ) = QList(pcb, semd[d2].s_procQ)
       IN  /\ \A p \in Pcbs : Others(outProcQ(pcb, tp, p).pcb)
           /\ Others(removeProcQ(pcb, tp).pcb)
           /\ \A p \in held : Detached(p) => Others(insertProcQ(pcb, tp, p).pcb)
  /\ \A p \in Pcbs :
       LET r == outBlocked(pcb, semd, semdFree_h, semd_h, p) IN
       r.ret # NULL =>
         \A d2 \in act :
           semd[d2].s_semAdd # pcb[p].p_semAdd =>
             /\ d2 \in ActiveSemds(r.semd, semd_h)
             /\ r.semd[d2].s_procQ = semd[d2].s_procQ
             /\ r.semd[d2].s_semAdd = semd[d2].s_semAdd
             /\ QList(r.pcb, r.semd[d2].s_procQ) = QList(pcb, semd[d2].s_procQ)
  /\ \A k \in Keys :
       LET r == removeBlocked(pcb, semd, semdFree_h, semd_h, k) IN
       r.ret # NULL =>
         \A d2 \in act :
           semd[d2].s_semAdd # k =>
             /\ d2 \in ActiveSemds(r.semd, semd_h)
             /\ r.semd[d2].s_procQ = semd[d2].s_procQ
             /\ r.semd[d2].s_semAdd = semd[d2].s_semAdd
             /\ QList(r.pcb, r.semd[d2].s_procQ) = QList(pcb, semd[d2].s_procQ)

\* Two semaphores have two PCBs blocked on each, so a removal at either end of
\* one queue has a neighbouring queue of two to leave alone.
C28_Witness ==
  \E d1, d2 \in ActiveSemds(semd, semd_h) :
    /\ d1 # d2
    /\ Len(QList(pcb, semd[d1].s_procQ)) = 2
    /\ Len(QList(pcb, semd[d2].s_procQ)) = 2
    /\ removeProcQ(pcb, semd[d1].s_procQ).ret # NULL
    /\ outProcQ(pcb, semd[d1].s_procQ, semd[d1].s_procQ).ret # NULL

\* The queue links of all the PCBs of the heap h
QueueLinksOf(h) == [q \in Pcbs |-> QueueLinks(h, q)]

\* The tree links of all the PCBs of the heap h
TreeLinksOf(h) == [q \in Pcbs |-> TreeLinks(h, q)]

\* The tree operations, applied to the heap h, leave the queue links of every
\* PCB as they are in h
TreeOpsKeepQueueLinks(h) ==
  LET ql == QueueLinksOf(h) IN
  \A p \in Pcbs :
    /\ QueueLinksOf(outChild(h, p).pcb) = ql
    /\ QueueLinksOf(removeChild(h, p).pcb) = ql
    /\ \A prnt \in Pcbs :
         (~HasParent(p) /\ p \notin Above(h, prnt, MAXPROC)) =>
           QueueLinksOf(insertChild(h, prnt, p)) = ql

\* removeProcQ and outProcQ, applied to the queue r (a heap and a tail
\* pointer), leave the tree links tl
QueueOpsKeepTree(r, tl) ==
  /\ TreeLinksOf(r.pcb) = tl
  /\ TreeLinksOf(removeProcQ(r.pcb, r.tp).pcb) = tl
  /\ \A p \in Pcbs : TreeLinksOf(outProcQ(r.pcb, r.tp, p).pcb) = tl

\* removeBlocked, outBlocked and headBlocked, applied to the ASL state r (a
\* heap, descriptors and a free list), leave the tree links tl
AslOpsKeepTree(r, tl) ==
  /\ TreeLinksOf(r.pcb) = tl
  /\ \A k \in Keys :
       /\ TreeLinksOf(removeBlocked(r.pcb, r.semd, r.free, semd_h, k).pcb) = tl
       /\ TreeLinksOf(headBlocked(r.pcb, r.semd, semd_h, k).pcb) = tl
  /\ \A p \in Pcbs :
       TreeLinksOf(outBlocked(r.pcb, r.semd, r.free, semd_h, p).pcb) = tl

\* The first n PCBs, in their order, put on the queue r (a heap and a tail
\* pointer) by insertProcQ
RECURSIVE QueueOfFirst(_, _)
QueueOfFirst(r, n) ==
  IF n = 0 THEN r
  ELSE LET q == QueueOfFirst(r, n - 1) IN
       [pcb |-> insertProcQ(q.pcb, q.tp, n).pcb, tp |-> insertProcQ(q.pcb, q.tp, n).tp]

\* C29 Tree and queue links are independent: in every state of the process
\* tree, a queue of one, two or three PCBs built by insertProcQ, and every
\* removeProcQ and outProcQ on it, leave the tree links of every PCB unchanged;
\* so do insertBlocked of one PCB and of a second one, on the lowest and the
\* highest key, and every removeBlocked, outBlocked and headBlocked after
\* them; insertChild, removeChild and outChild leave p_next, p_prev and
\* p_semAdd of every PCB unchanged, on the heap as it is, with each of these
\* queues and with the two PCBs blocked; and the tree operations that led to
\* the state have left the tail pointer and the descriptors as initASL made
\* them. The queues hold the lowest-numbered PCBs: every numbering of a tree is
\* reachable, so every place in the tree meets every place in a queue.
C29_LinksIndependent ==
  LET tl == TreeLinksOf(pcb) IN
  /\ rq = mkEmptyProcQ
  /\ semd = initASL.semd
  /\ TreeOpsKeepQueueLinks(pcb)
  /\ \A n \in 1..(MAXPROC - 1) :
       LET q == QueueOfFirst([pcb |-> pcb, tp |-> mkEmptyProcQ], n) IN
       /\ Len(QList(q.pcb, q.tp)) = n
       /\ QueueOpsKeepTree(q, tl)
       /\ TreeOpsKeepQueueLinks(q.pcb)
  /\ \A k \in {1, MaxKey} :
       LET b1 == insertBlocked(pcb, semd, semdFree_h, semd_h, k, 1) IN
       /\ AslOpsKeepTree(b1, tl)
       /\ \A j \in {1, MaxKey} :
            LET b2 == insertBlocked(b1.pcb, b1.semd, b1.free, semd_h, j, 2) IN
            /\ b2.ret = FALSE_
            /\ AslOpsKeepTree(b2, tl)
            /\ TreeOpsKeepQueueLinks(b2.pcb)

\* A parent has three children; the middle one, put on an empty queue, is the
\* first and the last of the queue and still has its parent and both its
\* siblings.
C29_Witness ==
  \E p \in Pcbs :
    /\ MiddleChild(pcb, p)
    /\ LET r == insertProcQ(pcb, mkEmptyProcQ, p) IN
       /\ r.tp = p
       /\ QueueLinks(r.pcb, p) = <<p, p, NULL>>
       /\ TreeLinks(r.pcb, p) = TreeLinks(pcb, p)
       /\ outChild(r.pcb, p).ret = p
       /\ QueueLinks(outChild(r.pcb, p).pcb, p) = <<p, p, NULL>>

\* The node n links after iter along p_next
RECURSIVE NthNext(_, _, _)
NthNext(h, iter, n) == IF n = 0 THEN iter ELSE NthNext(h, h[iter].p_next, n - 1)

\* The descriptor n links after iter along s_next
RECURSIVE NthSemd(_, _, _)
NthSemd(sd, iter, n) == IF n = 0 THEN iter ELSE NthSemd(sd, sd[iter].s_next, n - 1)

\* C30 Every operation terminates: in every state of the ASL, for every key
\* between the sentinel keys, the scan of traverseASL (the only loop of
\* insertBlocked and headBlocked, and the first of outBlocked and
\* removeBlocked) follows at most as many links as there are active
\* descriptors and stops at the descriptor traverseASL returns; and for every
\* blocked queue and every PCB, the scan of outProcQ follows fewer links than
\* the queue has members and stops at the tail or at the PCB, and removeProcQ,
\* which asks for the head, follows none.
C30_ScansTerminate ==
  LET act == ActiveSemds(semd, semd_h) IN
  /\ \A k \in Keys :
       LET n == traverseASLSteps(semd, semd_h, k) IN
       /\ n <= Cardinality(act)
       /\ NthSemd(semd, semd_h, n) = traverseASL(semd, semd_h, k)
  /\ \A d \in act :
       LET tp == semd[d].s_procQ IN
       /\ outProcQSteps(pcb, tp, headProcQ(pcb, tp)) = 0
       /\ \A p \in Pcbs :
            LET n == outProcQSteps(pcb, tp, p) IN
            /\ n <= Len(QList(pcb, tp))
            /\ tp # NULL => n < Len(QList(pcb, tp))
            /\ (tp # NULL /\ tp # pcb[tp].p_next /\ p # tp) =>
                 NthNext(pcb, pcb[tp].p_next, n) = outProcQScan(pcb, tp, p, pcb[tp].p_next)

\* Three PCBs are blocked on one semaphore and the fourth on a lower one: the
\* scan for the fourth in the queue of three follows two links, up to the
\* tail, and the scan of the ASL for a key above both follows two.
C30_Witness ==
  \E d \in ActiveSemds(semd, semd_h), p \in Pcbs :
    /\ Len(QList(pcb, semd[d].s_procQ)) = 3
    /\ pcb[p].p_semAdd # NULL
    /\ pcb[p].p_semAdd < semd[d].s_semAdd
    /\ outProcQSteps(pcb, semd[d].s_procQ, p) = 2
    /\ outProcQ(pcb, semd[d].s_procQ, p).ret = NULL
    /\ traverseASLSteps(semd, semd_h, MaxKey) = 2
    /\ semd[d].s_semAdd < MaxKey

\* C31 Descriptor conservation: in every state after initASL each of the
\* MAXPROC descriptors that are not sentinels is on the free list or on the
\* ASL, on one of them only and there once, so the free ones and the active
\* ones are MAXPROC together.
C31_DescriptorConservation ==
  LET frees  == FreeSemds(semd, semdFree_h)
      chain  == AslChain(semd, semd_h)
      active == ActiveSemds(semd, semd_h)
  IN  /\ SeqSet(frees) \cup active = 1..MAXPROC
      /\ SeqSet(frees) \cap active = {}
      /\ Len(frees) = Cardinality(SeqSet(frees))
      /\ Len(chain) = Cardinality(active) + 2
      /\ Len(frees) + Cardinality(active) = MAXPROC

\* Two descriptors are on the ASL and two are free, and the free list is
\* headed by a descriptor that was taken before the two active ones and has
\* been given back by removeEmptySemd.
C31_Witness ==
  /\ Cardinality(ActiveSemds(semd, semd_h)) = 2
  /\ Len(FreeSemds(semd, semdFree_h)) = 2
  /\ \A d \in ActiveSemds(semd, semd_h) : semdFree_h < d
  /\ semd[semdFree_h].s_next > semdFree_h

\* The PCBs that are members of the queue of an active descriptor
BlockedMembers(h, sd, head) ==
  UNION {SeqSet(QList(h, sd[d].s_procQ)) : d \in ActiveSemds(sd, head)}

\* C32 Descriptor exhaustion is unreachable with pool PCBs: when the PCBs
\* blocked are held PCBs of the pool, each inserted only while it is in no
\* queue, there are never more active descriptors than PCBs in the blocked
\* queues, so never more than MAXPROC, and insertBlocked of a held PCB that is
\* in no queue, on any key, returns FALSE.
C32_NoDescriptorExhaustion ==
  LET active  == ActiveSemds(semd, semd_h)
      members == BlockedMembers(pcb, semd, semd_h)
  IN  /\ Cardinality(active) <= Cardinality(members)
      /\ members \subseteq {p \in held : IsBlocked(p)}
      /\ Cardinality(active) <= MAXPROC
      /\ \A p \in held :
           Detached(p) =>
             /\ Cardinality(active) < MAXPROC
             /\ \A k \in Keys :
                  insertBlocked(pcb, semd, semdFree_h, semd_h, k, p).ret = FALSE_

\* All PCBs but one are blocked, each on a key of its own, and one descriptor
\* is left: insertBlocked of the last PCB on yet another key takes it, returns
\* FALSE and leaves the free list empty.
C32_Witness ==
  \E p \in held, k \in Keys :
    /\ Detached(p)
    /\ Cardinality(ActiveSemds(semd, semd_h)) = MAXPROC - 1
    /\ Cardinality(BlockedMembers(pcb, semd, semd_h)) = MAXPROC - 1
    /\ ~IsActive(semd, semd_h, k)
    /\ semdFree_h # NULL
    /\ LET r == insertBlocked(pcb, semd, semdFree_h, semd_h, k, p) IN
       /\ r.ret = FALSE_
       /\ r.free = NULL
       /\ Cardinality(ActiveSemds(r.semd, semd_h)) = MAXPROC

\* C33 Sibling lists are well formed: after any insertChild, removeChild and
\* outChild calls, insertChild being given only a child without a parent, for
\* every PCB q the chain from q.p_child along p_sib_next holds exactly the PCBs
\* whose p_parent is q, each once; the first has no p_sib_prev, and every one
\* that has a next sibling is that sibling's p_sib_prev; q.p_child is NULL iff
\* no PCB has q for its parent.
C33_SiblingListWellFormed ==
  \A q \in Pcbs :
    LET c == ChildList(pcb, q) IN
    /\ SeqSet(c) = {x \in Pcbs : pcb[x].p_parent = q}
    /\ Len(c) = Cardinality(SeqSet(c))
    /\ c = kids[q]
    /\ c # <<>> => pcb[c[1]].p_sib_prev = NULL
    /\ \A i \in 1..Len(c) :
         /\ pcb[c[i]].p_sib_next # NULL =>
              pcb[pcb[c[i]].p_sib_next].p_sib_prev = c[i]
         /\ i < Len(c) => pcb[c[i]].p_sib_next = c[i + 1]
         /\ i = Len(c) => pcb[c[i]].p_sib_next = NULL
    /\ (pcb[q].p_child = NULL) <=> (\A x \in Pcbs : pcb[x].p_parent # q)

\* outChild has just taken a PCB out of the tree: it has no parent, and the
\* other PCBs are a parent and its two children, chained from p_child.
C33_Witness ==
  \E q \in Pcbs :
    /\ call.op = "outChild"
    /\ call.ret # NULL
    /\ call.ret # q
    /\ pcb[call.ret].p_parent = NULL
    /\ Len(ChildList(pcb, q)) = 2
    /\ Len(kids[q]) = 2
    /\ \A x \in Pcbs \ {q, call.ret} : pcb[x].p_parent = q
    /\ pcb[pcb[q].p_child].p_sib_prev = NULL

\* C34 Removed PCBs are fully unlinked: every PCB that removeProcQ or outProcQ
\* returns has p_next = NULL and p_prev = NULL in the heap the call leaves,
\* also when it was the only member of its queue.
C34_RemovedUnlinked ==
  /\ LET r == removeProcQ(pcb, rq) IN
     r.ret # NULL =>
       /\ r.pcb[r.ret].p_next = NULL
       /\ r.pcb[r.ret].p_prev = NULL
  /\ \A p \in Pcbs :
       LET r == outProcQ(pcb, rq, p) IN
       r.ret # NULL =>
         /\ r.pcb[r.ret].p_next = NULL
         /\ r.pcb[r.ret].p_prev = NULL

====
